---- MODULE Spec2Model ----
(***************************************************************************)
(* Model of cluster_start.py, the start script of the broadcast network    *)
(* stress test: main() guards against a left-over deployment file, then    *)
(* ExperimentRunner builds/pushes the image, creates the namespace,        *)
(* renders and applies the manifests, and records what it did in the       *)
(* deployment file.                                                        *)
(*                                                                         *)
(* Every external command (run_cmd, connect_to_cluster, teardown) is one   *)
(* step whose result is chosen nondeterministically.  A process may be     *)
(* killed between any two steps.  The deployment file is written by        *)
(* open(..., "w") followed by json.dump, i.e. truncated first and filled   *)
(* afterwards, which is modelled as two steps.                             *)
(***************************************************************************)
EXTENDS Integers, Sequences, FiniteSets, TLC

VARIABLES
    procs,            \* the invocations of main() that exist in this behaviour
    pc,               \* pc[p]: position of invocation p in main()
    runs,             \* runs[p]: how many times p has invoked main()
    args,             \* args[p]: the parsed command line (args.image)
    timestamp,        \* self.timestamp
    deployment_file,  \* self.deployment_file, the in-memory dict
    image_tag,        \* local image_tag of run_experiment
    next_file,        \* position of deploy_yaml_files' loop in yaml_files
    exc,              \* the exception that ended the run ("none" if none)
    at,               \* the step at which exc was raised / the process was killed
    log,              \* log[p]: external operations invoked by this invocation
    saves,            \* saves[p]: documents this invocation has completely written
    disk,             \* the file network_stress_test_deployment_file_name
    wd_files,         \* files present in cluster_working_directory
    namespaces,       \* namespaces existing on the cluster
    applied,          \* <<namespace, file>> pairs applied on the cluster
    clock             \* the wall clock read by make_timestamp

vars == <<procs, pc, runs, args, timestamp, deployment_file, image_tag,
          next_file, exc, at, log, saves, disk, wd_files, namespaces,
          applied, clock>>

----------------------------------------------------------------------------
(* Bounds *)

MaxRuns == 2
MaxClock == 2

Procs == {1, 2}

----------------------------------------------------------------------------
(* Values *)

\* Strings built by f-strings are modelled as sequences of their parts.
None == <<"None">>
EmptyStr == << >>
UserImage == <<"registry/some-image:v1">>
ImageArgs == {None, EmptyStr, UserImage}

\* Python truthiness of args.image (None and "" are falsy).
Truthy(x) == x # None /\ x # EmptyStr

cluster_working_directory == <<"cluster_working_directory">>

make_image_tag(ts) ==
    <<"us-central1-docker.pkg.dev/starkware-dev/sequencer/broadcast-network-stress-test-node:", ts>>

\* Mutant: the namespace name does not carry the timestamp of the run.
NamespaceNameFixed(ts) == <<"broadcast-network-stress-test-", 0>>

NamespaceName(ts) == <<"broadcast-network-stress-test-", ts>>

\* The keys of `files` in write_yaml_files, in insertion order.
YamlFiles ==
    << "network-stress-test-deployment.yaml",
       "network-stress-test-headless-service.yaml",
       "prometheus-config.yaml",
       "prometheus-deployment.yaml",
       "prometheus-service.yaml" >>

NoDict == << >>

Keys(d) == DOMAIN d

\* d[k] = v on a dict: add or overwrite key k.
SetItem(d, k, v) == [x \in (DOMAIN d) \cup {k} |-> IF x = k THEN v ELSE d[x]]

\* The deployment file: absent, truncated/half-written, or a whole document.
Absent == [kind |-> "absent"]
Partial == [kind |-> "partial"]
Full(d) == [kind |-> "full", doc |-> d]

\* os.path.exists(network_stress_test_deployment_file_name)
Exists(f) == f.kind # "absent"

Results == {"ok", "fail"}

Bool(b) == IF b THEN "true" ELSE "false"

Event(op, arg, res) == [op |-> op, arg |-> arg, res |-> res]

Logged(p, op, res) == \E i \in DOMAIN log[p] : log[p][i].op = op /\ log[p][i].res = res
Invoked(p, op) == \E i \in DOMAIN log[p] : log[p][i].op = op

----------------------------------------------------------------------------
(* The pieces of code that build the in-memory dict and decide control flow *)

\* __enter__, line 80
EnterDict == SetItem(NoDict, "cluster_working_directory", cluster_working_directory)

\* Mutant: the namespace name is recorded together with the timestamp.
ArgsDictWithNamespace(d, a, ts) ==
    SetItem(SetItem(SetItem(d, "args", a), "timestamp", ts), "namespace", NamespaceName(ts))

\* run_experiment, lines 104 and 107
ArgsDict(d, a, ts) == SetItem(SetItem(d, "args", a), "timestamp", ts)

\* run_experiment, line 105
ResolveImageTag(a, ts) == IF Truthy(a.image) THEN a.image ELSE make_image_tag(ts)

\* Mutant: the image is built even when --image names one.
SkipsBuildNever(a) == FALSE

\* run_experiment, line 109: is the build skipped?
SkipsBuild(a) == Truthy(a.image)

\* Mutant: image_tag is not recorded.
ImageDictWithoutTag(d, built, tag) == SetItem(d, "was_image_built", built)

\* run_experiment, lines 110/114 and 116
ImageDict(d, built, tag) == SetItem(SetItem(d, "was_image_built", built), "image_tag", tag)

\* Mutant: the namespace is never put into the dict.
NamespaceDictUnset(d, ns) == d

\* create_namespace, line 88
NamespaceDict(d, ns) == SetItem(d, "namespace", ns)

\* Mutant: the last rendered file is left out of the recorded list.
YamlDictShort(d, files) == SetItem(d, "yaml_files", SubSeq(files, 1, Len(files) - 1))

\* Mutant: a hard-coded list is recorded instead of the list returned.
YamlDictHardCoded(d, files) ==
    SetItem(d, "yaml_files", << "network-stress-test-deployment.yaml", "prometheus-deployment.yaml" >>)

\* Mutant: the record is replaced by a fresh dict holding only the list.
YamlDictFresh(d, files) == SetItem(NoDict, "yaml_files", files)

\* run_experiment, line 129
YamlDict(d, files) == SetItem(d, "yaml_files", files)

\* write_yaml_files, line 73: the list returned once every file is written
WrittenNames == YamlFiles

\* Mutant: __exit__ writes the file only when no exception is pending.
ExitWritesOnSuccess(e) == e = "none"

\* __exit__, lines 83-84: exc_type is ignored, the file is written on every way out
ExitWrites(e) == TRUE

\* Mutant: the list of rendered files is not written out.
ExitDocWithoutYaml(d) == [k \in Keys(d) \ {"yaml_files"} |-> d[k]]

\* __exit__, line 84: the document written on the way out
ExitDoc(d) == d

\* main, line 215
GuardCallsStop(f) == Exists(f)

\* Mutant: the assertion is compiled away and never fails.
AssertAlwaysPasses(f) == TRUE

\* main, lines 218-220
AssertPasses(f) == ~Exists(f)

\* Mutant: __exit__ runs (and saves) although __enter__ raised.
OnEnterFailureRunsExit == "exit"

\* main, line 222: an exception raised by __enter__ leaves the with statement
\* without __exit__ being called
OnEnterFailure == "aborted"

\* Mutant: the files are applied from the last to the first.
FileToApplyReversed(files, i) == files[Len(files) + 1 - i]

\* deploy_yaml_files, line 95: the i-th iteration takes the i-th name
FileToApply(files, i) == files[i]

\* Mutant: the loop is never left.
AfterApplyNeverLeaves(files, i) == "deploy_yaml_files"

\* deploy_yaml_files, line 95, and run_experiment, line 132: the loop ends
\* after the last name
AfterApply(files, i) == IF i = Len(files) THEN "get_pods" ELSE "deploy_yaml_files"

\* utils.run_cmd: a command that exits non-zero raises, for every caller alike
Raises(res) == res = "fail"

----------------------------------------------------------------------------
(* Initial state *)

Stopped == {"idle", "done", "aborted", "dead"}

InitWith(P) ==
    /\ procs = P
    /\ pc = [p \in Procs |-> "idle"]
    /\ runs = [p \in Procs |-> 0]
    /\ args = [p \in Procs |-> [image |-> None]]
    /\ timestamp = [p \in Procs |-> 0]
    /\ deployment_file = [p \in Procs |-> NoDict]
    /\ image_tag = [p \in Procs |-> None]
    /\ next_file = [p \in Procs |-> 1]
    /\ exc = [p \in Procs |-> "none"]
    /\ at = [p \in Procs |-> "idle"]
    /\ log = [p \in Procs |-> << >>]
    /\ saves = [p \in Procs |-> << >>]
    /\ disk = Absent
    /\ wd_files = {}
    /\ namespaces = {}
    /\ applied = {}
    /\ clock = 1

\* One operator runs the script, one invocation after the other.
Init == InitWith({1})

----------------------------------------------------------------------------
(* Steps *)

Goto(p, l) == pc' = [pc EXCEPT ![p] = l]
Note(p, op, arg, res) == log' = [log EXCEPT ![p] = Append(@, Event(op, arg, res))]
Raise(p, e) ==
    /\ exc' = [exc EXCEPT ![p] = e]
    /\ at' = [at EXCEPT ![p] = pc[p]]

Cluster == <<namespaces, applied>>
Locals == <<args, timestamp, deployment_file, image_tag, next_file>>

\* How many times the script has been started so far, by anyone.
Invocations == runs[1] + runs[2]

\* python cluster_start.py [--image ...]: a new invocation of main() (lines 142-213)
Start(p) ==
    /\ pc[p] \in Stopped
    /\ Invocations < MaxRuns
    /\ \E img \in ImageArgs : args' = [args EXCEPT ![p] = [image |-> img]]
    /\ runs' = [runs EXCEPT ![p] = @ + 1]
    /\ timestamp' = [timestamp EXCEPT ![p] = 0]
    /\ deployment_file' = [deployment_file EXCEPT ![p] = NoDict]
    /\ image_tag' = [image_tag EXCEPT ![p] = None]
    /\ next_file' = [next_file EXCEPT ![p] = 1]
    /\ exc' = [exc EXCEPT ![p] = "none"]
    /\ at' = [at EXCEPT ![p] = "main"]
    /\ log' = [log EXCEPT ![p] = << >>]
    /\ saves' = [saves EXCEPT ![p] = << >>]
    /\ Goto(p, "main")
    /\ UNCHANGED <<procs, disk, wd_files, Cluster, clock>>

\* main, line 215
Guard(p) ==
    /\ pc[p] = "main"
    /\ Note(p, "exists", "guard", Bool(Exists(disk)))
    /\ Goto(p, IF GuardCallsStop(disk) THEN "stop_last_cluster_run" ELSE "assert")
    /\ UNCHANGED <<procs, runs, Locals, exc, at, saves, disk, wd_files, Cluster, clock>>

\* cluster_stop.stop_last_cluster_run, line 216: best effort, never raises.
\* When it succeeds it deletes the namespace the file names, the working
\* directory and the file; when it fails it leaves everything in place.
TornDownNamespaces(f) ==
    IF f.kind = "full" /\ "namespace" \in Keys(f.doc) THEN {f.doc["namespace"]} ELSE {}

stop_last_cluster_run(p) ==
    /\ pc[p] = "stop_last_cluster_run"
    /\ \E res \in Results :
        /\ Note(p, "stop_last_cluster_run", "", res)
        /\ \/ /\ res = "ok"
              /\ namespaces' = namespaces \ TornDownNamespaces(disk)
              /\ applied' = {x \in applied : x[1] \notin TornDownNamespaces(disk)}
              /\ wd_files' = {}
              /\ disk' = Absent
           \/ /\ res = "fail"
              /\ UNCHANGED <<namespaces, applied, wd_files, disk>>
    /\ Goto(p, "assert")
    /\ UNCHANGED <<procs, runs, Locals, exc, at, saves, clock>>

\* main, lines 218-220
AssertNoDeploymentFile(p) ==
    /\ pc[p] = "assert"
    /\ Note(p, "exists", "assert", Bool(Exists(disk)))
    /\ IF AssertPasses(disk)
         THEN Goto(p, "enter") /\ UNCHANGED <<exc, at>>
         ELSE Goto(p, "aborted") /\ Raise(p, "AssertionError")
    /\ UNCHANGED <<procs, runs, Locals, saves, disk, wd_files, Cluster, clock>>

\* ExperimentRunner.__enter__, lines 77-81.  An exception raised here
\* leaves the with statement before __exit__ is armed.
Enter(p) ==
    /\ pc[p] = "enter"
    /\ \/ \* make_timestamp raises (line 78)
          /\ Note(p, "make_timestamp", "", "fail")
          /\ Goto(p, OnEnterFailure)
          /\ Raise(p, "RuntimeError")
          /\ UNCHANGED <<clock, timestamp, deployment_file>>
       \/ \* make_timestamp returns; mkdir -p succeeds or fails (lines 78-80)
          \E t \in clock .. MaxClock, res \in Results :
            /\ clock' = t
            /\ timestamp' = [timestamp EXCEPT ![p] = t]
            /\ log' = [log EXCEPT ![p] = @ \o << Event("make_timestamp", "", "ok"),
                                                 Event("mkdir", "", res) >>]
            /\ IF Raises(res)
                 THEN /\ Goto(p, OnEnterFailure)
                      /\ Raise(p, "RuntimeError")
                      /\ UNCHANGED deployment_file
                 ELSE /\ Goto(p, "run_experiment")
                      /\ deployment_file' = [deployment_file EXCEPT ![p] = EnterDict]
                      /\ UNCHANGED <<exc, at>>
    /\ UNCHANGED <<procs, runs, args, image_tag, next_file, saves, disk, wd_files, Cluster>>

\* run_experiment, lines 103-116
RunExperiment(p) ==
    /\ pc[p] = "run_experiment"
    /\ LET d1 == ArgsDict(deployment_file[p], args[p], timestamp[p])
           tag == ResolveImageTag(args[p], timestamp[p])
       IN  /\ image_tag' = [image_tag EXCEPT ![p] = tag]
           /\ IF SkipsBuild(args[p])
                THEN /\ deployment_file' = [deployment_file EXCEPT ![p] = ImageDict(d1, FALSE, tag)]
                     /\ Goto(p, "inspect")
                     /\ UNCHANGED <<exc, at, log>>
                ELSE \E res \in Results :
                     /\ Note(p, "build_image", "", res)
                     /\ IF Raises(res)
                          THEN /\ deployment_file' = [deployment_file EXCEPT ![p] = d1]
                               /\ Goto(p, "exit")
                               /\ Raise(p, "RuntimeError")
                          ELSE /\ deployment_file' = [deployment_file EXCEPT ![p] = ImageDict(d1, TRUE, tag)]
                               /\ Goto(p, "inspect")
                               /\ UNCHANGED <<exc, at>>
    /\ UNCHANGED <<procs, runs, args, timestamp, next_file, saves, disk, wd_files, Cluster, clock>>

\* Mutant: a failing command is reported and the run carries on.
CommandIgnoringFailure(p, here, op, there) ==
    /\ pc[p] = here
    /\ \E res \in Results : Note(p, op, "", res)
    /\ Goto(p, there)
    /\ UNCHANGED <<procs, runs, args, timestamp, deployment_file, image_tag, next_file,
                   exc, at, saves, disk, wd_files, namespaces, applied, clock>>

\* One external command between `here` and `there`; a failure raises.
Command(p, here, op, there) ==
    /\ pc[p] = here
    /\ \E res \in Results :
        /\ Note(p, op, "", res)
        /\ IF Raises(res)
             THEN Goto(p, "exit") /\ Raise(p, "RuntimeError")
             ELSE Goto(p, there) /\ UNCHANGED <<exc, at>>
    /\ UNCHANGED <<procs, runs, Locals, saves, disk, wd_files, Cluster, clock>>

\* run_experiment, lines 117-120
InspectImage(p) == Command(p, "inspect", "docker_image_inspect", "connect_to_cluster")
\* run_experiment, line 122
connect_to_cluster(p) == Command(p, "connect_to_cluster", "connect_to_cluster", "login_to_docker_registry")
\* run_experiment, line 123
login_to_docker_registry(p) == Command(p, "login_to_docker_registry", "login_to_docker_registry", "upload_image_to_registry")
\* run_experiment, line 124
upload_image_to_registry(p) == Command(p, "upload_image_to_registry", "upload_image_to_registry", "create_namespace")

\* write_deployment_file, line 48: open(..., "w") truncates the file
OpenForWrite(p, there) ==
    /\ disk' = Partial
    /\ Goto(p, there)

\* write_deployment_file, line 49: json.dump and close leave the whole document
DumpDocument(p, d) ==
    /\ disk' = Full(d)
    /\ saves' = [saves EXCEPT ![p] = Append(@, d)]

\* create_namespace, lines 87-89 up to the opening of the file
create_namespace(p) ==
    /\ pc[p] = "create_namespace"
    /\ deployment_file' = [deployment_file EXCEPT
                             ![p] = NamespaceDict(@, NamespaceName(timestamp[p]))]
    /\ OpenForWrite(p, "create_namespace_dump")
    /\ UNCHANGED <<procs, runs, args, timestamp, image_tag, next_file, exc, at, log,
                   saves, wd_files, Cluster, clock>>

\* create_namespace, line 89: the dump of write_deployment_file
CreateNamespaceDump(p) ==
    /\ pc[p] = "create_namespace_dump"
    /\ DumpDocument(p, deployment_file[p])
    /\ Goto(p, "kubectl_create_namespace")
    /\ UNCHANGED <<procs, runs, Locals, exc, at, log, wd_files, Cluster, clock>>

\* create_namespace, lines 90-92.  kubectl refuses a name that exists.
KubectlCreateNamespace(p) ==
    /\ pc[p] = "kubectl_create_namespace"
    /\ LET ns == NamespaceName(timestamp[p]) IN
       \E res \in Results :
        /\ res = "ok" => ns \notin namespaces
        /\ Note(p, "kubectl_create_namespace", "", res)
        /\ IF Raises(res)
             THEN /\ Goto(p, "exit")
                  /\ Raise(p, "RuntimeError")
                  /\ UNCHANGED namespaces
             ELSE /\ Goto(p, "write_yaml_files")
                  /\ namespaces' = namespaces \cup {ns}
                  /\ UNCHANGED <<exc, at>>
    /\ UNCHANGED <<procs, runs, Locals, saves, disk, wd_files, applied, clock>>

\* write_yaml_files, lines 57-73, and run_experiment, lines 128-129: the
\* files are written in order; the k+1-st write may raise.
write_yaml_files(p) ==
    /\ pc[p] = "write_yaml_files"
    /\ \E k \in 0 .. Len(YamlFiles) :
        /\ wd_files' = wd_files \cup {YamlFiles[i] : i \in 1 .. k}
        /\ IF k < Len(YamlFiles)
             THEN /\ Note(p, "write_yaml_files", YamlFiles[k + 1], "fail")
                  /\ Goto(p, "exit")
                  /\ Raise(p, "OSError")
                  /\ UNCHANGED deployment_file
             ELSE /\ Note(p, "write_yaml_files", "", "ok")
                  /\ Goto(p, "deploy_yaml_files")
                  /\ deployment_file' = [deployment_file EXCEPT ![p] = YamlDict(@, WrittenNames)]
                  /\ UNCHANGED <<exc, at>>
    /\ next_file' = [next_file EXCEPT ![p] = 1]
    /\ UNCHANGED <<procs, runs, args, timestamp, image_tag, saves, disk, Cluster, clock>>

\* deploy_yaml_files, lines 94-100: one iteration of the loop
deploy_yaml_files(p) ==
    /\ pc[p] = "deploy_yaml_files"
    /\ next_file[p] \in DOMAIN deployment_file[p]["yaml_files"]
    /\ LET files == deployment_file[p]["yaml_files"]
           file == FileToApply(files, next_file[p])
           ns == NamespaceName(timestamp[p])
       IN  \E res \in Results :
            /\ res = "ok" => ns \in namespaces
            /\ Note(p, "kubectl_apply", file, res)
            /\ IF Raises(res)
                 THEN /\ Goto(p, "exit")
                      /\ Raise(p, "RuntimeError")
                      /\ UNCHANGED <<applied, next_file>>
                 ELSE /\ applied' = applied \cup {<<ns, file>>}
                      /\ next_file' = [next_file EXCEPT ![p] = @ + 1]
                      /\ Goto(p, AfterApply(files, next_file[p]))
                      /\ UNCHANGED <<exc, at>>
    /\ UNCHANGED <<procs, runs, args, timestamp, deployment_file, image_tag, saves,
                   disk, wd_files, namespaces, clock>>

\* run_experiment, lines 132-139: sleep(10), then kubectl get pods
GetPods(p) == Command(p, "get_pods", "kubectl_get_pods", "exit")

\* __exit__, lines 83-84: entered on return and on exception alike;
\* write_deployment_file opens the file
Exit(p) ==
    /\ pc[p] = "exit"
    /\ IF ExitWrites(exc[p])
         THEN OpenForWrite(p, "exit_dump")
         ELSE Goto(p, IF exc[p] = "none" THEN "done" ELSE "aborted") /\ UNCHANGED disk
    /\ UNCHANGED <<procs, runs, Locals, exc, at, log, saves, wd_files, Cluster, clock>>

\* __exit__, line 84: the dump; __exit__ returns None, so a pending
\* exception propagates out of main()
ExitDump(p) ==
    /\ pc[p] = "exit_dump"
    /\ DumpDocument(p, ExitDoc(deployment_file[p]))
    /\ Goto(p, IF exc[p] = "none" THEN "done" ELSE "aborted")
    /\ UNCHANGED <<procs, runs, Locals, exc, at, log, wd_files, Cluster, clock>>

\* The process is killed (SIGKILL, power loss): nothing more runs, not
\* even __exit__.
Crash(p) ==
    /\ pc[p] \notin Stopped
    /\ Goto(p, "dead")
    /\ Raise(p, "killed")
    /\ UNCHANGED <<procs, runs, Locals, log, saves, disk, wd_files, Cluster, clock>>

Next ==
    \/ \E p \in procs : Start(p)
    \/ \E p \in procs : Guard(p)
    \/ \E p \in procs : stop_last_cluster_run(p)
    \/ \E p \in procs : AssertNoDeploymentFile(p)
    \/ \E p \in procs : Enter(p)
    \/ \E p \in procs : RunExperiment(p)
    \/ \E p \in procs : InspectImage(p)
    \/ \E p \in procs : connect_to_cluster(p)
    \/ \E p \in procs : login_to_docker_registry(p)
    \/ \E p \in procs : upload_image_to_registry(p)
    \/ \E p \in procs : create_namespace(p)
    \/ \E p \in procs : CreateNamespaceDump(p)
    \/ \E p \in procs : KubectlCreateNamespace(p)
    \/ \E p \in procs : write_yaml_files(p)
    \/ \E p \in procs : deploy_yaml_files(p)
    \/ \E p \in procs : GetPods(p)
    \/ \E p \in procs : Exit(p)
    \/ \E p \in procs : ExitDump(p)
    \/ \E p \in procs : Crash(p)

\* The steps of the script itself, with no process killed.
NextUnkilled ==
    \/ \E p \in procs : Start(p)
    \/ \E p \in procs : Guard(p)
    \/ \E p \in procs : stop_last_cluster_run(p)
    \/ \E p \in procs : AssertNoDeploymentFile(p)
    \/ \E p \in procs : Enter(p)
    \/ \E p \in procs : RunExperiment(p)
    \/ \E p \in procs : InspectImage(p)
    \/ \E p \in procs : connect_to_cluster(p)
    \/ \E p \in procs : login_to_docker_registry(p)
    \/ \E p \in procs : upload_image_to_registry(p)
    \/ \E p \in procs : create_namespace(p)
    \/ \E p \in procs : CreateNamespaceDump(p)
    \/ \E p \in procs : KubectlCreateNamespace(p)
    \/ \E p \in procs : write_yaml_files(p)
    \/ \E p \in procs : deploy_yaml_files(p)
    \/ \E p \in procs : GetPods(p)
    \/ \E p \in procs : Exit(p)
    \/ \E p \in procs : ExitDump(p)

Spec == Init /\ [][Next]_vars

\* A process that is running takes its next step: every external call returns.
RunningStep == NextUnkilled /\ \E p \in procs : pc[p] \notin Stopped

SpecLive == Init /\ [][NextUnkilled]_vars /\ WF_vars(RunningStep)

\* Two operators run the script with nothing to keep them apart.
InitConcurrent == InitWith({1, 2})

\* A killed invocation looks to the other one like an invocation that is not
\* scheduled again, so kills are left out here.
SpecConcurrent == InitConcurrent /\ [][NextUnkilled]_vars

----------------------------------------------------------------------------
(* Properties *)

\* Operations of cluster_start.py that change the cluster.
MutatingOps == {"kubectl_create_namespace", "kubectl_apply"}

Mutated(p) == \E i \in DOMAIN log[p] : log[p][i].op \in MutatingOps

NamespaceKeyOnDisk == disk.kind = "full" /\ "namespace" \in Keys(disk.doc)

\* C1: if the deployment file exists when main() starts, stop_last_cluster_run
\* is invoked before any operation that changes the cluster; and if the file
\* still exists at the assertion, that check is the last thing the invocation
\* does: it ends with an AssertionError and has changed nothing on the cluster.
C1_GuardBeforeMutation ==
    \A p \in procs :
        /\ \A j \in DOMAIN log[p] :
              (log[p][1] = Event("exists", "guard", "true") /\ log[p][j].op \in MutatingOps)
                  => \E i \in 1 .. j - 1 : log[p][i].op = "stop_last_cluster_run"
        /\ \A j \in DOMAIN log[p] :
              log[p][j] = Event("exists", "assert", "true")
                  => /\ j = Len(log[p])
                     /\ pc[p] = "aborted"
                     /\ exc[p] = "AssertionError"
                     /\ ~Mutated(p)
                     /\ saves[p] = << >>

\* C1 witness: teardown was invoked, left the file in place, and the run aborted.
C1_Witness ==
    \E p \in procs :
        /\ pc[p] = "aborted"
        /\ exc[p] = "AssertionError"
        /\ Logged(p, "stop_last_cluster_run", "fail")
        /\ Exists(disk)

\* C2 (as claimed): whenever the namespace this run created exists on the
\* cluster, the deployment file on disk is a whole document naming it.
C2_NamespaceAlwaysOnDisk ==
    \A p \in procs :
        (Logged(p, "kubectl_create_namespace", "ok") /\ NamespaceName(timestamp[p]) \in namespaces)
            => /\ NamespaceKeyOnDisk
               /\ disk.doc["namespace"] = NamespaceName(timestamp[p])

C4_AbortLeavesRecord ==
    \A p \in procs :
        (pc[p] = "aborted" /\ exc[p] \in {"RuntimeError", "OSError"} /\ at[p] # "enter")
            => /\ disk = Full(deployment_file[p])
               /\ {"cluster_working_directory", "args", "timestamp"} \subseteq Keys(disk.doc)
               /\ GuardCallsStop(disk)

\* C4 witness: the build failed and the file holds the three fields set so far.
C4_Witness ==
    \E p \in procs :
        /\ pc[p] = "aborted"
        /\ at[p] = "run_experiment"
        /\ Logged(p, "build_image", "fail")
        /\ disk.kind = "full"
        /\ Keys(disk.doc) = {"cluster_working_directory", "args", "timestamp"}

\* Positions of run_experiment before create_namespace opens the file.
BeforeFirstSave ==
    {"run_experiment", "inspect", "connect_to_cluster", "login_to_docker_registry",
     "upload_image_to_registry", "create_namespace"}

\* Positions from VERIFY_IMAGE up to the creation of the namespace.
AfterResolveImage == BeforeFirstSave \ {"run_experiment"}

C7_SavesOnlyGrow ==
    \A p \in procs :
        \A i \in 1 .. Len(saves[p]) - 1 :
            /\ Keys(saves[p][i]) \subseteq Keys(saves[p][i + 1])
            /\ \A k \in Keys(saves[p][i]) : saves[p][i + 1][k] = saves[p][i][k]

\* C7 witness: a run that saved twice, the second document with more fields.
C7_Witness ==
    \E p \in procs :
        /\ pc[p] = "done"
        /\ Len(saves[p]) = 2
        /\ "yaml_files" \in Keys(saves[p][2]) \ Keys(saves[p][1])

\* C8 (as claimed): the file is never seen truncated or half-written.
C8_SaveIsAtomic == disk.kind \in {"absent", "full"}

\* C9: when kubectl apply fails on the k-th file the run aborts, the file on
\* disk lists all rendered files in order, and exactly the first k-1 of them
\* are applied in the run's namespace.
C9_FailedApplyKeepsWholeList ==
    \A p \in procs :
        (pc[p] = "aborted" /\ at[p] = "deploy_yaml_files")
            => LET ns == NamespaceName(timestamp[p])
                   k == next_file[p]
               IN  /\ exc[p] = "RuntimeError"
                   /\ log[p][Len(log[p])] = Event("kubectl_apply", YamlFiles[k], "fail")
                   /\ disk.kind = "full"
                   /\ "yaml_files" \in Keys(disk.doc)
                   /\ disk.doc["yaml_files"] = YamlFiles
                   /\ {x[2] : x \in {y \in applied : y[1] = ns}}
                          = {YamlFiles[i] : i \in 1 .. k - 1}

\* C9 witness: the apply of the third of the five files failed.
C9_Witness ==
    \E p \in procs :
        /\ pc[p] = "aborted"
        /\ at[p] = "deploy_yaml_files"
        /\ next_file[p] = 3
        /\ Len(YamlFiles) = 5

\* C10 (as claimed): a failing kubectl get pods does not abort the run.
C10_ProbeFailureIsNotFatal ==
    \A p \in procs :
        (Logged(p, "kubectl_get_pods", "fail") /\ pc[p] \in {"done", "aborted"})
            => pc[p] = "done" /\ exc[p] = "none"

\* The namespace this invocation created is still on the cluster.
LiveNamespace(p) ==
    Logged(p, "kubectl_create_namespace", "ok") /\ NamespaceName(timestamp[p]) \in namespaces

\* C11 (as claimed): of two invocations that both created a namespace at least
\* one had invoked teardown first; never do two invocations that both skipped
\* teardown have live namespaces of which the record names only one.
C11_GuardPreventsOverlap ==
    \A p, q \in procs :
        p # q =>
            /\ (Logged(p, "kubectl_create_namespace", "ok") /\ Logged(q, "kubectl_create_namespace", "ok"))
                  => (Invoked(p, "stop_last_cluster_run") \/ Invoked(q, "stop_last_cluster_run"))
            /\ ~ /\ ~Invoked(p, "stop_last_cluster_run")
                 /\ ~Invoked(q, "stop_last_cluster_run")
                 /\ LiveNamespace(p)
                 /\ LiveNamespace(q)
                 /\ NamespaceName(timestamp[p]) # NamespaceName(timestamp[q])

\* C11 (amended): the guard keeps an invocation off a record that is already on
\* disk: an invocation issues kubectl create namespace only if its assertion
\* found no file, and, if its start-up check found the file, only after it
\* invoked teardown.  Invocations that start while no record is on disk are
\* not kept apart.
C11_GuardOnlySeesSavedRecord ==
    \A p \in procs :
        (pc[p] = "kubectl_create_namespace" \/ Invoked(p, "kubectl_create_namespace"))
            => /\ \E j \in DOMAIN log[p] : log[p][j] = Event("exists", "assert", "false")
               /\ ~ \E j \in DOMAIN log[p] : log[p][j] = Event("exists", "assert", "true")
               /\ log[p][1] = Event("exists", "guard", "true")
                     => log[p][2].op = "stop_last_cluster_run"

\* C11 witness: two invocations overlap, neither invoked teardown, both
\* namespaces are live and the file names only the second.
C11_Witness ==
    /\ procs = {1, 2}
    /\ ~Invoked(1, "stop_last_cluster_run")
    /\ ~Invoked(2, "stop_last_cluster_run")
    /\ LiveNamespace(1)
    /\ LiveNamespace(2)
    /\ NamespaceName(timestamp[1]) # NamespaceName(timestamp[2])
    /\ NamespaceKeyOnDisk
    /\ disk.doc["namespace"] = NamespaceName(timestamp[2])

Elements(s) == {s[i] : i \in DOMAIN s}

IsApply(e) == e.op = "kubectl_apply"

\* The kubectl apply calls of this invocation, in the order they were made.
ApplyEvents(p) == SelectSeq(log[p], IsApply)

\* C12: yaml_files is in the record only after write_yaml_files has written
\* every file, and is then exactly the list it returned, which names the files
\* in the working directory; it is never set (nor saved) when rendering failed
\* partway; and the files applied are files of that list, all of them once the
\* run is done.
C12_YamlFilesAreWhatWasWritten ==
    \A p \in procs :
        /\ "yaml_files" \in Keys(deployment_file[p])
              => /\ Logged(p, "write_yaml_files", "ok")
                 /\ deployment_file[p]["yaml_files"] = WrittenNames
                 /\ Elements(deployment_file[p]["yaml_files"]) = wd_files
        /\ Logged(p, "write_yaml_files", "fail")
              => /\ "yaml_files" \notin Keys(deployment_file[p])
                 /\ \A i \in DOMAIN saves[p] : "yaml_files" \notin Keys(saves[p][i])
        /\ \A i \in DOMAIN ApplyEvents(p) :
              /\ "yaml_files" \in Keys(deployment_file[p])
              /\ ApplyEvents(p)[i].arg \in Elements(deployment_file[p]["yaml_files"])
        /\ pc[p] = "done"
              => {e.arg : e \in Elements(ApplyEvents(p))}
                     = Elements(deployment_file[p]["yaml_files"])

\* C12 witness: rendering failed on the third file; two files are in the
\* working directory and the saved record has no yaml_files.
C12_Witness ==
    \E p \in procs :
        /\ pc[p] = "aborted"
        /\ at[p] = "write_yaml_files"
        /\ wd_files = {YamlFiles[1], YamlFiles[2]}
        /\ disk.kind = "full"
        /\ "yaml_files" \notin Keys(disk.doc)

\* C13: the i-th kubectl apply of a run is for the i-th rendered file, every
\* apply but the last one made has succeeded, and a run that is done has
\* applied each of the files exactly once.
C13_AppliedInListOrder ==
    \A p \in procs :
        LET a == ApplyEvents(p) IN
        /\ Len(a) <= Len(YamlFiles)
        /\ \A i \in DOMAIN a :
              /\ a[i].arg = YamlFiles[i]
              /\ i < Len(a) => a[i].res = "ok"
        /\ pc[p] = "deploy_yaml_files" => next_file[p] = Len(a) + 1
        /\ pc[p] = "done"
              => /\ Len(a) = Len(YamlFiles)
                 /\ \A i \in DOMAIN a : a[i].res = "ok"
                 /\ \A f \in Elements(YamlFiles) :
                       <<NamespaceName(timestamp[p]), f>> \in applied

\* C13 witness: a run that is done after five applies.
C13_Witness ==
    \E p \in procs :
        /\ pc[p] = "done"
        /\ Len(ApplyEvents(p)) = 5
        /\ ApplyEvents(p)[5].arg = "prometheus-service.yaml"

BuildCalls(p) == {i \in DOMAIN log[p] : log[p][i].op = "build_image"}

Failed(p) == \E i \in DOMAIN log[p] :
    log[p][i].res = "fail" \/ log[p][i] = Event("exists", "assert", "true")

\* C14: once RESOLVE_IMAGE has run: with an image tag given (a non-empty
\* --image) build_image is not called, was_image_built is False and image_tag is
\* the given tag; otherwise build_image is called exactly once and
\* was_image_built is True exactly if it succeeded.  A run with a given tag
\* that is done has saved five yaml_files, and a run aborts only after some
\* call failed.
C14_ResolveImage ==
    \A p \in procs :
        /\ "timestamp" \in Keys(deployment_file[p])
              => IF args[p].image \notin {None, EmptyStr}
                   THEN /\ BuildCalls(p) = {}
                        /\ "was_image_built" \in Keys(deployment_file[p])
                        /\ deployment_file[p]["was_image_built"] = FALSE
                        /\ deployment_file[p]["image_tag"] = args[p].image
                   ELSE /\ Cardinality(BuildCalls(p)) = 1
                        /\ ("was_image_built" \in Keys(deployment_file[p])
                              /\ deployment_file[p]["was_image_built"] = TRUE)
                             <=> Logged(p, "build_image", "ok")
        /\ (pc[p] = "done" /\ args[p].image = UserImage)
              => /\ disk.kind = "full"
                 /\ disk.doc["was_image_built"] = FALSE
                 /\ Len(disk.doc["yaml_files"]) = 5
        /\ pc[p] = "aborted" => Failed(p)

\* C14 witness: first invocation, --image given, nothing failed, done with
\* five files recorded.
C14_Witness ==
    \E p \in procs :
        /\ pc[p] = "done"
        /\ Invocations = 1
        /\ args[p].image = UserImage
        /\ ~Failed(p)
        /\ disk.kind = "full"
        /\ Len(disk.doc["yaml_files"]) = 5

\* Positions of the phases before CREATE_NAMESPACE that run a command.
BeforeNamespace ==
    {"run_experiment", "inspect", "connect_to_cluster", "login_to_docker_registry",
     "upload_image_to_registry"}

\* C15: a run aborted by a failure in a phase before CREATE_NAMESPACE has
\* created no namespace, applied and rendered no manifest, and the record it
\* leaves on disk has neither namespace nor yaml_files.
C15_EarlyFailureLeavesNoClusterState ==
    \A p \in procs :
        (pc[p] = "aborted" /\ at[p] \in BeforeNamespace)
            => /\ ~Mutated(p)
               /\ ~Invoked(p, "write_yaml_files")
               /\ wd_files = {}
               /\ disk.kind = "full"
               /\ Keys(disk.doc) \cap {"namespace", "yaml_files"} = {}
               /\ \A i \in DOMAIN saves[p] :
                     Keys(saves[p][i]) \cap {"namespace", "yaml_files"} = {}

\* C15 witness: the push failed.
C15_Witness ==
    \E p \in procs :
        /\ pc[p] = "aborted"
        /\ at[p] = "upload_image_to_registry"
        /\ Logged(p, "upload_image_to_registry", "fail")
        /\ disk.kind = "full"

IsProgramOp(e) == e.op \notin {"exists", "stop_last_cluster_run"}

\* The names of the calls made by ExperimentRunner in this invocation, in order.
ProgramOps(p) ==
    LET evs == SelectSeq(log[p], IsProgramOp) IN [i \in DOMAIN evs |-> evs[i].op]

IsPrefix(a, b) == Len(a) <= Len(b) /\ \A i \in DOMAIN a : a[i] = b[i]

\* The calls of a complete run, phase by phase.
PhaseOrder(built) ==
    << "make_timestamp", "mkdir" >>
    \o (IF built THEN << "build_image" >> ELSE << >>)
    \o << "docker_image_inspect", "connect_to_cluster", "login_to_docker_registry",
          "upload_image_to_registry", "kubectl_create_namespace", "write_yaml_files",
          "kubectl_apply", "kubectl_apply", "kubectl_apply", "kubectl_apply",
          "kubectl_apply", "kubectl_get_pods" >>

\* C16: the calls a run has made are an initial part of the fixed phase order
\* (so no phase is repeated or skipped), every call before the last one made
\* has succeeded, and a failed call is the last call of the run.
C16_PhasesInOrder ==
    \A p \in procs :
        /\ IsPrefix(ProgramOps(p), PhaseOrder(args[p].image \in {None, EmptyStr}))
        /\ \A i \in DOMAIN log[p] :
              (log[p][i].res = "fail" /\ IsProgramOp(log[p][i]))
                  => i = Len(log[p]) /\ pc[p] \in {"exit", "exit_dump", "aborted", "dead"}
        /\ pc[p] = "done" => ProgramOps(p) = PhaseOrder(args[p].image \in {None, EmptyStr})

\* C16 witness: connecting to the cluster failed after the build and the
\* inspection; nothing was called after it.
C16_Witness ==
    \E p \in procs :
        /\ pc[p] = "aborted"
        /\ ProgramOps(p) = << "make_timestamp", "mkdir", "build_image",
                              "docker_image_inspect", "connect_to_cluster" >>
        /\ Logged(p, "connect_to_cluster", "fail")

\* C17: the timestamp in the record is the one taken in __enter__ (taken once);
\* the namespace in the record and the namespace created on the cluster are
\* <prefix>-<that timestamp>, and the tag of an image built by the run ends in
\* the same timestamp.
C17_NamesFromOneTimestamp ==
    \A p \in procs :
        LET d == deployment_file[p] IN
        /\ Cardinality({i \in DOMAIN log[p] : log[p][i].op = "make_timestamp"}) <= 1
        /\ "timestamp" \in Keys(d)
              => d["timestamp"] = timestamp[p] /\ Logged(p, "make_timestamp", "ok")
        /\ "namespace" \in Keys(d)
              => d["namespace"] = <<"broadcast-network-stress-test-", d["timestamp"]>>
        /\ Logged(p, "kubectl_create_namespace", "ok")
              => <<"broadcast-network-stress-test-", d["timestamp"]>> \in namespaces
        /\ ("was_image_built" \in Keys(d) /\ d["was_image_built"] = TRUE)
              => /\ d["image_tag"][2] = d["timestamp"]
                 /\ d["image_tag"] = make_image_tag(timestamp[p])

\* C17 witness: a run with timestamp 2 built its image and created its namespace.
C17_Witness ==
    \E p \in procs :
        /\ pc[p] = "done"
        /\ timestamp[p] = 2
        /\ deployment_file[p]["was_image_built"] = TRUE
        /\ <<"broadcast-network-stress-test-", 2>> \in namespaces
        /\ disk = Full(deployment_file[p])

\* C18: when every external call returns, an invocation that has started
\* eventually ends, done or aborted.
C18_EveryRunEnds ==
    \A p \in Procs : (pc[p] \notin Stopped) ~> (pc[p] \in {"done", "aborted"})

\* C18 witness: the second invocation in a row has ended.
C18_Witness ==
    \E p \in procs :
        /\ pc[p] \in {"done", "aborted"}
        /\ runs[p] = 2
        /\ Invoked(p, "kubectl_get_pods")

\* C19: when __enter__ raises, the run is over at once: nothing but
\* make_timestamp and mkdir was called, nothing was saved, there is no
\* deployment file, and the guard of the next invocation will not call teardown.
C19_FailedEnterLeavesNothing ==
    \A p \in procs :
        (pc[p] = "aborted" /\ at[p] = "enter")
            => /\ log[p][Len(log[p])] \in {Event("make_timestamp", "", "fail"),
                                           Event("mkdir", "", "fail")}
               /\ Elements(ProgramOps(p)) \subseteq {"make_timestamp", "mkdir"}
               /\ ~Mutated(p)
               /\ deployment_file[p] = NoDict
               /\ saves[p] = << >>
               /\ disk = Absent
               /\ ~GuardCallsStop(disk)

\* C19 witness: mkdir -p failed.
C19_Witness ==
    \E p \in procs :
        /\ pc[p] = "aborted"
        /\ at[p] = "enter"
        /\ Logged(p, "mkdir", "fail")
        /\ disk = Absent

====
